---- MODULE Spec2Model ----
(***************************************************************************)
(* The dice contract of contracts/dice/dice.hpp: the four tables (offers,  *)
(* games, global_dices, accounts) and the six actions dispatched by apply  *)
(* (offerbet, canceloffer, reveal, claimexpired, deposit, withdraw).       *)
(* One call runs to completion before the next; a failed eosio_assert      *)
(* aborts the call and discards its writes.                                *)
(***************************************************************************)
EXTENDS Integers, FiniteSets, TLC

VARIABLES offers, games, global_dices, accounts, now, custody, revealed, settled, last

vars == <<offers, games, global_dices, accounts, now, custody, revealed, settled, last>>

(***************************************************************************)
(* Bounds of the model.                                                    *)
(***************************************************************************)
\* account names are 1..MaxOwner
MaxOwner == 3
\* secrets (reveal sources) are 0..MaxSecret; 0 is the all-zero checksum256
MaxSecret == 2
\* bets, deposits and withdrawals are at most MaxAmount
MaxAmount == 2
\* deposits stop once the contract holds MaxCustody
MaxCustody == 4
\* matching stops once nextgameid has reached MaxGames
MaxGames == 2
\* the clock stops after MaxTicks advances
MaxTicks == 2
\* offers are placed while the fresh primary key is at most MaxOfferId
MaxOfferId == 2

FIVE_MINUTES == 300

Owners == 1..MaxOwner

Secrets == 0..MaxSecret

(***************************************************************************)
(* sha256 of a 32-byte source, on the bounded domain: injective and never  *)
(* the all-zero digest.                                                    *)
(***************************************************************************)
sha256(source) == 7 * source + 3

Commitments == {sha256(s) : s \in Secrets}

\* the first two bytes of sha256 over the two player slots of a game
result_hash(p1, p2) ==
    LET h0 == (3 * p1.commitment + 5 * p1.reveal + 7 * p2.commitment + 11 * p2.reveal) % 256
        h1 == (13 * p1.commitment + 2 * p1.reveal + 5 * p2.commitment + 3 * p2.reveal + 1) % 256
    IN  <<h0, h1>>

is_equal(a, b) == a = b

is_zero(a) == a = 0

(***************************************************************************)
(* Table helpers: a table is a function from primary key to row.           *)
(***************************************************************************)
SetMax(S) == CHOOSE x \in S : \A y \in S : y <= x

SetMin(S) == CHOOSE x \in S : \A y \in S : x <= y

erase(t, k) == [x \in DOMAIN t \ {k} |-> t[x]]

emplace(t, k, row) == (k :> row) @@ t

idx_end == 0 - 1

available_primary_key(t) == IF DOMAIN t = {} THEN 0 ELSE SetMax(DOMAIN t) + 1

\* commitment index: the offer carrying the commitment, or idx_end
find_commitment(offs, c) ==
    LET hit == {i \in DOMAIN offs : offs[i].commitment = c}
    IN  IF hit = {} THEN idx_end ELSE SetMin(hit)

\* mutant: only unmatched offers count as carrying the commitment
has_offer_open_only(offs, c) ==
    \E i \in DOMAIN offs : offs[i].commitment = c /\ offs[i].gameid = 0

has_offer(offs, c) == find_commitment(offs, c) # idx_end

\* bet index, ordered by (bet, id): the first offer with bet >= amount
lower_bound_bet(offs, amount) ==
    LET ge == {i \in DOMAIN offs : offs[i].bet >= amount}
        lo == SetMin({offs[i].bet : i \in ge})
    IN  IF ge = {} THEN idx_end ELSE SetMin({i \in ge : offs[i].bet = lo})

\* the global counter's value; 0 while its row does not exist yet
NextGameId(gd) == IF DOMAIN gd = {} THEN 0 ELSE gd[SetMin(DOMAIN gd)].nextgameid

is_empty(acnt) ==
    acnt.eos_balance = 0 /\ acnt.open_offers = 0 /\ acnt.open_games = 0

\* mutant: the subtraction is not guarded
token_covers_unchecked(balance, amount) == TRUE

\* token_type subtraction asserts that the balance covers the amount
token_covers(balance, amount) == balance >= amount

(***************************************************************************)
(* The outcome of a call: its error ("ok" when it committed) and the       *)
(* tables it leaves.  A failed assertion leaves the tables as they were.   *)
(* has_auth says whether the transaction carries the authority of the      *)
(* account that require_auth names.                                        *)
(* paid is empty, or names the game pay_and_clean settled in the call with  *)
(* the owners of the winner's and the loser's offers.                      *)
(***************************************************************************)
Commit(o, g, gd, a) ==
    [err |-> "ok", offers |-> o, games |-> g, global_dices |-> gd, accounts |-> a,
     paid |-> << >>]

Abort(msg) ==
    [err |-> msg, offers |-> offers, games |-> games,
     global_dices |-> global_dices, accounts |-> accounts, paid |-> << >>]


\* uint32 counters, held in their two's-complement reading: a negative value
\* stands for the wrapped value 2^32 + x (0 - 1 is 0xFFFFFFFF)
inc32(x) == x + 1

dec32(x) == x - 1

(***************************************************************************)
(* pay_and_clean: pays the winner twice the game's bet, closes the game on *)
(* both accounts, drops the loser's account when it is empty, and erases   *)
(* the game and both offers.  g is the game's id, winner_offer and         *)
(* loser_offer are offer ids.                                              *)
(***************************************************************************)
\* mutant: the game is settled but its row is not erased
pay_and_clean_keeps_game(g, winner_offer, loser_offer) ==
    LET w  == offers[winner_offer].owner
        l  == offers[loser_offer].owner
        a1 == [accounts EXCEPT ![w].eos_balance = @ + 2 * games[g].bet,
                               ![w].open_games = dec32(@)]
        a2 == [a1 EXCEPT ![l].open_games = dec32(@)]
        a3 == IF is_empty(a2[l]) THEN erase(a2, l) ELSE a2
    IN  [Commit(erase(erase(offers, winner_offer), loser_offer), games, global_dices, a3)
            EXCEPT !.paid = <<g, w, l>>]

\* mutant: the winner is paid the bet once, not twice
pay_and_clean_single_bet(g, winner_offer, loser_offer) ==
    LET w  == offers[winner_offer].owner
        l  == offers[loser_offer].owner
        a1 == [accounts EXCEPT ![w].eos_balance = @ + games[g].bet,
                               ![w].open_games = dec32(@)]
        a2 == [a1 EXCEPT ![l].open_games = dec32(@)]
        a3 == IF is_empty(a2[l]) THEN erase(a2, l) ELSE a2
    IN  [Commit(erase(erase(offers, winner_offer), loser_offer),
                erase(games, g), global_dices, a3)
            EXCEPT !.paid = <<g, w, l>>]

pay_and_clean(g, winner_offer, loser_offer) ==
    LET w  == offers[winner_offer].owner
        l  == offers[loser_offer].owner
        a1 == [accounts EXCEPT ![w].eos_balance = @ + 2 * games[g].bet,
                               ![w].open_games = dec32(@)]
        a2 == [a1 EXCEPT ![l].open_games = dec32(@)]
        a3 == IF is_empty(a2[l]) THEN erase(a2, l) ELSE a2
    IN  [Commit(erase(erase(offers, winner_offer), loser_offer),
                erase(games, g), global_dices, a3)
            EXCEPT !.paid = <<g, w, l>>]

(***************************************************************************)
(* on(offerbet)                                                            *)
(***************************************************************************)
\* mutant: the stored offer is not counted in open_offers
offerbet_unmatched_not_counted(o1, bet, player) ==
    IF ~token_covers(accounts[player].eos_balance, bet)
    THEN Abort("integer underflow subtracting token balance")
    ELSE Commit(o1, games, global_dices,
                [accounts EXCEPT ![player].eos_balance = @ - bet])

\* the branch that stores the offer unmatched
offerbet_unmatched(o1, bet, player) ==
    IF ~token_covers(accounts[player].eos_balance, bet)
    THEN Abort("integer underflow subtracting token balance")
    ELSE Commit(o1, games, global_dices,
                [accounts EXCEPT ![player].eos_balance = @ - bet,
                                 ![player].open_offers = inc32(@)])

\* mutant: the matched owner, debited when the offer was placed, is debited again
offerbet_matched_debits_twice(o1, new_offer, matched_offer, bet, player) ==
    LET gid == NextGameId(global_dices) + 1
        g1  == emplace(games, gid,
                   [id |-> gid, bet |-> o1[new_offer].bet, deadline |-> 0,
                    player1 |-> [commitment |-> o1[matched_offer].commitment, reveal |-> 0],
                    player2 |-> [commitment |-> o1[new_offer].commitment, reveal |-> 0]])
        o3  == [o1 EXCEPT ![matched_offer].bet = 0, ![matched_offer].gameid = gid,
                          ![new_offer].bet = 0, ![new_offer].gameid = gid]
        m   == o1[matched_offer].owner
        a1  == [accounts EXCEPT ![m].open_offers = dec32(@), ![m].open_games = inc32(@),
                                ![m].eos_balance = @ - bet]
    IN  IF ~token_covers(a1[player].eos_balance, bet)
        THEN Abort("integer underflow subtracting token balance")
        ELSE Commit(o3, g1, (0 :> [id |-> 0, nextgameid |-> gid]),
                    [a1 EXCEPT ![player].eos_balance = @ - bet,
                               ![player].open_games = inc32(@)])

\* mutant: the matched owner's open_offers is left as it was
offerbet_matched_keeps_open_offers(o1, new_offer, matched_offer, bet, player) ==
    LET gid == NextGameId(global_dices) + 1
        g1  == emplace(games, gid,
                   [id |-> gid, bet |-> o1[new_offer].bet, deadline |-> 0,
                    player1 |-> [commitment |-> o1[matched_offer].commitment, reveal |-> 0],
                    player2 |-> [commitment |-> o1[new_offer].commitment, reveal |-> 0]])
        o3  == [o1 EXCEPT ![matched_offer].bet = 0, ![matched_offer].gameid = gid,
                          ![new_offer].bet = 0, ![new_offer].gameid = gid]
        m   == o1[matched_offer].owner
        a1  == [accounts EXCEPT ![m].open_games = inc32(@)]
    IN  IF ~token_covers(a1[player].eos_balance, bet)
        THEN Abort("integer underflow subtracting token balance")
        ELSE Commit(o3, g1, (0 :> [id |-> 0, nextgameid |-> gid]),
                    [a1 EXCEPT ![player].eos_balance = @ - bet,
                               ![player].open_games = inc32(@)])

\* the branch that pairs the new offer with matched_offer in a new game
offerbet_matched(o1, new_offer, matched_offer, bet, player) ==
    LET gd1  == IF DOMAIN global_dices = {}
                THEN emplace(global_dices, 0, [id |-> 0, nextgameid |-> 0])
                ELSE global_dices
        gitr == SetMin(DOMAIN gd1)
        gd2  == [gd1 EXCEPT ![gitr].nextgameid = @ + 1]
        gid  == gd2[gitr].nextgameid
        g1   == emplace(games, gid,
                    [id |-> gid, bet |-> o1[new_offer].bet, deadline |-> 0,
                     player1 |-> [commitment |-> o1[matched_offer].commitment, reveal |-> 0],
                     player2 |-> [commitment |-> o1[new_offer].commitment, reveal |-> 0]])
        o2   == [o1 EXCEPT ![matched_offer].bet = 0, ![matched_offer].gameid = gid]
        o3   == [o2 EXCEPT ![new_offer].bet = 0, ![new_offer].gameid = gid]
        m    == o3[matched_offer].owner
        a1   == [accounts EXCEPT ![m].open_offers = dec32(@), ![m].open_games = inc32(@)]
    IN  IF ~token_covers(a1[player].eos_balance, bet)
        THEN Abort("integer underflow subtracting token balance")
        ELSE Commit(o3, g1, gd2,
                    [a1 EXCEPT ![player].eos_balance = @ - bet,
                               ![player].open_games = inc32(@)])

\* mutant: an offer of the new offer's owner counts as a match
no_match_ignores_owner(o1, new_offer, matched_offer) ==
    \/ matched_offer = idx_end
    \/ o1[matched_offer].bet # o1[new_offer].bet

\* whether the offer the bet index returns is no match for the new offer
no_match(o1, new_offer, matched_offer) ==
    \/ matched_offer = idx_end
    \/ o1[matched_offer].bet # o1[new_offer].bet
    \/ o1[matched_offer].owner = o1[new_offer].owner

offerbet(bet, player, commitment, has_auth) ==
    IF ~(bet > 0) THEN Abort("invalid bet")
    ELSE IF has_offer(offers, commitment)
    THEN Abort("offer with this commitment already exist")
    ELSE IF ~has_auth THEN Abort("missing required authority")
    ELSE IF player \notin DOMAIN accounts THEN Abort("unknown account")
    ELSE LET new_offer == available_primary_key(offers)
             o1 == emplace(offers, new_offer,
                       [id |-> new_offer, owner |-> player, bet |-> bet,
                        commitment |-> commitment, gameid |-> 0])
             matched_offer == lower_bound_bet(o1, o1[new_offer].bet)
         IN  IF no_match(o1, new_offer, matched_offer)
             THEN offerbet_unmatched(o1, bet, player)
             ELSE offerbet_matched(o1, new_offer, matched_offer, bet, player)

(***************************************************************************)
(* on(canceloffer)                                                         *)
(***************************************************************************)
\* mutant: the offer is erased without refunding its bet
canceloffer_no_refund(commitment, has_auth) ==
    LET offer_itr == find_commitment(offers, commitment)
    IN  IF offer_itr = idx_end THEN Abort("offer does not exists")
        ELSE IF ~(offers[offer_itr].gameid = 0) THEN Abort("unable to cancel offer")
        ELSE IF ~has_auth THEN Abort("missing required authority")
        ELSE LET o == offers[offer_itr].owner
             IN  Commit(erase(offers, offer_itr), games, global_dices,
                        [accounts EXCEPT ![o].open_offers = dec32(@)])

\* mutant: a matched offer can be cancelled like an open one
canceloffer_any_offer(commitment, has_auth) ==
    LET offer_itr == find_commitment(offers, commitment)
    IN  IF offer_itr = idx_end THEN Abort("offer does not exists")
        ELSE IF ~has_auth THEN Abort("missing required authority")
        ELSE LET o == offers[offer_itr].owner
             IN  Commit(erase(offers, offer_itr), games, global_dices,
                        [accounts EXCEPT ![o].open_offers = dec32(@),
                                         ![o].eos_balance = @ + offers[offer_itr].bet])

canceloffer(commitment, has_auth) ==
    LET offer_itr == find_commitment(offers, commitment)
    IN  IF offer_itr = idx_end THEN Abort("offer does not exists")
        ELSE IF ~(offers[offer_itr].gameid = 0) THEN Abort("unable to cancel offer")
        ELSE IF ~has_auth THEN Abort("missing required authority")
        ELSE LET o == offers[offer_itr].owner
             IN  Commit(erase(offers, offer_itr), games, global_dices,
                        [accounts EXCEPT ![o].open_offers = dec32(@),
                                         ![o].eos_balance = @ + offers[offer_itr].bet])

(***************************************************************************)
(* on(reveal)                                                              *)
(***************************************************************************)
\* the slot of game g that carries the commitment: player1 unless it differs
curr_slot(g, commitment) ==
    IF is_equal(games[g].player1.commitment, commitment) THEN "player1" ELSE "player2"

other_slot(slot) == IF slot = "player1" THEN "player2" ELSE "player1"

\* the digest taken over the two player slots as the game row stores them
stored_result(g) == result_hash(games[g].player1, games[g].player2)

\* both reveals present: the digest of the stored slots picks the winner
reveal_settle(g, curr_revealer_offer, prev_reveal) ==
    LET result == stored_result(g)
        prev_revealer_offer == find_commitment(offers, prev_reveal.commitment)
        winner == IF result[2] < result[1] THEN 0 ELSE 1
    IN  IF prev_revealer_offer = idx_end
        THEN Abort("dereferenced end iterator")
        ELSE IF winner # 0
        THEN pay_and_clean(g, curr_revealer_offer, prev_revealer_offer)
        ELSE pay_and_clean(g, prev_revealer_offer, curr_revealer_offer)

\* first reveal: store the source in the revealer's slot and start the clock
reveal_store(g, curr_reveal, source) ==
    LET slot == IF is_equal(curr_reveal.commitment, games[g].player1.commitment)
                THEN "player1" ELSE "player2"
    IN  Commit(offers,
               [games EXCEPT ![g][slot].reveal = source,
                             ![g].deadline = now + FIVE_MINUTES],
               global_dices, accounts)

\* the handler past assert_sha256
reveal_verified(commitment, source) ==
    LET curr_revealer_offer == find_commitment(offers, commitment)
    IN  IF curr_revealer_offer = idx_end THEN Abort("offer not found")
        ELSE IF ~(offers[curr_revealer_offer].gameid > 0) THEN Abort("unable to reveal")
        ELSE LET g == offers[curr_revealer_offer].gameid
             IN  IF g \notin DOMAIN games THEN Abort("dereferenced end iterator")
                 ELSE LET slot == curr_slot(g, commitment)
                          curr_reveal == games[g][slot]
                          prev_reveal == games[g][other_slot(slot)]
                      IN  IF ~is_zero(curr_reveal.reveal)
                          THEN Abort("player already revealed")
                          ELSE IF ~is_zero(prev_reveal.reveal)
                          THEN reveal_settle(g, curr_revealer_offer, prev_reveal)
                          ELSE reveal_store(g, curr_reveal, source)

\* mutant: the source is never checked against the commitment
reveal_no_hash_check(commitment, source) == reveal_verified(commitment, source)

reveal(commitment, source) ==
    IF sha256(source) # commitment THEN Abort("hash mismatch")
    ELSE reveal_verified(commitment, source)

(***************************************************************************)
(* on(claimexpired)                                                        *)
(***************************************************************************)
expired(g) == games[g].deadline # 0 /\ now > games[g].deadline

claimexpired(gameid) ==
    IF gameid \notin DOMAIN games THEN Abort("game not found")
    ELSE IF ~expired(gameid) THEN Abort("game not expired")
    ELSE LET player1_offer == find_commitment(offers, games[gameid].player1.commitment)
             player2_offer == find_commitment(offers, games[gameid].player2.commitment)
         IN  IF player1_offer = idx_end \/ player2_offer = idx_end
             THEN Abort("dereferenced end iterator")
             ELSE IF ~is_zero(games[gameid].player1.reveal)
             THEN IF ~is_zero(games[gameid].player2.reveal)
                  THEN Abort("game error")
                  ELSE pay_and_clean(gameid, player1_offer, player2_offer)
             ELSE IF ~is_zero(games[gameid].player1.reveal)
                  THEN Abort("game error")
                  ELSE pay_and_clean(gameid, player2_offer, player1_offer)

(***************************************************************************)
(* on(deposit), on(withdraw)                                               *)
(***************************************************************************)
deposit(from, amount) ==
    LET a1 == IF from \notin DOMAIN accounts
              THEN emplace(accounts, from,
                       [owner |-> from, eos_balance |-> 0, open_offers |-> 0, open_games |-> 0])
              ELSE accounts
    IN  Commit(offers, games, global_dices, [a1 EXCEPT ![from].eos_balance = @ + amount])

\* mutant: the account row is erased as soon as the balance is zero
withdraw_erases_at_zero_balance(to, amount, has_auth) ==
    IF ~has_auth THEN Abort("missing required authority")
    ELSE IF to \notin DOMAIN accounts THEN Abort("unknown account")
    ELSE IF ~token_covers(accounts[to].eos_balance, amount)
    THEN Abort("integer underflow subtracting token balance")
    ELSE LET a1 == [accounts EXCEPT ![to].eos_balance = @ - amount]
         IN  Commit(offers, games, global_dices,
                    IF a1[to].eos_balance = 0 THEN erase(a1, to) ELSE a1)

withdraw(to, amount, has_auth) ==
    IF ~has_auth THEN Abort("missing required authority")
    ELSE IF to \notin DOMAIN accounts THEN Abort("unknown account")
    ELSE IF ~token_covers(accounts[to].eos_balance, amount)
    THEN Abort("integer underflow subtracting token balance")
    ELSE LET a1 == [accounts EXCEPT ![to].eos_balance = @ - amount]
         IN  Commit(offers, games, global_dices,
                    IF is_empty(a1[to]) THEN erase(a1, to) ELSE a1)

(***************************************************************************)
(* The state machine.  A call that fails an assertion is rolled back and   *)
(* leaves every variable as it was.  custody is what the inline transfers  *)
(* have moved into the contract and not yet out.  last names the call that *)
(* committed last and what it paid; revealed holds the commitments of the  *)
(* stored offers whose owner has had a reveal call commit; settled counts, *)
(* per game id, the runs of pay_and_clean.                                 *)
(***************************************************************************)
stored_commitments(offs) == {offs[i].commitment : i \in DOMAIN offs}

Call(op, res, moved, shown) ==
    IF res.err = "ok"
    THEN /\ offers' = res.offers
         /\ games' = res.games
         /\ global_dices' = res.global_dices
         /\ accounts' = res.accounts
         /\ custody' = custody + moved
         /\ revealed' = (revealed \cup shown) \cap stored_commitments(res.offers)
         /\ settled' = IF res.paid = << >> THEN settled
                        ELSE LET g == res.paid[1]
                             IN  IF g \in DOMAIN settled
                                 THEN [settled EXCEPT ![g] = @ + 1]
                                 ELSE (g :> 1) @@ settled
         /\ last' = [op |-> op, paid |-> res.paid]
         /\ UNCHANGED now
    ELSE UNCHANGED vars

Init ==
    /\ offers = << >>
    /\ games = << >>
    /\ global_dices = << >>
    /\ accounts = << >>
    /\ now = 1
    /\ custody = 0
    /\ revealed = {}
    /\ settled = << >>
    /\ last = [op |-> "init", paid |-> << >>]

OfferBet ==
    \E bet \in 0..MaxAmount, player \in Owners, commitment \in Commitments, has_auth \in BOOLEAN :
        LET res == offerbet(bet, player, commitment, has_auth)
        IN  /\ available_primary_key(offers) <= MaxOfferId
            /\ NextGameId(res.global_dices) <= MaxGames
            /\ Call("offerbet", res, 0, {})

CancelOffer ==
    \E commitment \in Commitments, has_auth \in BOOLEAN :
        Call("canceloffer", canceloffer(commitment, has_auth), 0, {})

Reveal ==
    \E commitment \in Commitments, source \in Secrets :
        Call("reveal", reveal(commitment, source), 0, {commitment})

ClaimExpired ==
    \E gameid \in 0..MaxGames :
        Call("claimexpired", claimexpired(gameid), 0, {})

Deposit ==
    \E from \in Owners, amount \in 1..MaxAmount :
        /\ custody + amount <= MaxCustody
        /\ Call("deposit", deposit(from, amount), amount, {})

Withdraw ==
    \E to \in Owners, amount \in 1..MaxAmount, has_auth \in BOOLEAN :
        Call("withdraw", withdraw(to, amount, has_auth), 0 - amount, {})

AdvanceTime ==
    /\ now < 1 + MaxTicks * FIVE_MINUTES
    /\ now' = now + FIVE_MINUTES
    /\ last' = [op |-> "tick", paid |-> << >>]
    /\ UNCHANGED <<offers, games, global_dices, accounts, custody, revealed, settled>>

Next ==
    \/ OfferBet
    \/ CancelOffer
    \/ Reveal
    \/ ClaimExpired
    \/ Deposit
    \/ Withdraw
    \/ AdvanceTime

Spec == Init /\ [][Next]_vars

(***************************************************************************)
(* The state machine with a clock that never stops.  The handlers read the *)
(* clock only to compare now with a deadline and to set a deadline to      *)
(* now + FIVE_MINUTES, so what they do is the same from any time origin.   *)
(* Up to the last tick the clock advances as in AdvanceTime; from there on *)
(* a tick moves the time origin FIVE_MINUTES on instead of now: every      *)
(* stored deadline is seen FIVE_MINUTES earlier.  0 stays "no deadline",   *)
(* and a deadline that lies a full period behind now has passed and is     *)
(* kept as it is, still non-zero and still passed.                         *)
(***************************************************************************)
shifted(deadline) ==
    IF deadline > FIVE_MINUTES THEN deadline - FIVE_MINUTES ELSE deadline

ClockRuns ==
    IF now < 1 + MaxTicks * FIVE_MINUTES
    THEN AdvanceTime
    ELSE /\ games' = [g \in DOMAIN games |->
                         [games[g] EXCEPT !.deadline = shifted(@)]]
         /\ last' = [op |-> "tick", paid |-> << >>]
         /\ UNCHANGED <<offers, global_dices, accounts, now, custody, revealed, settled>>

ClaimExpiredOf(gameid) == Call("claimexpired", claimexpired(gameid), 0, {})

LiveNext ==
    \/ OfferBet
    \/ CancelOffer
    \/ Reveal
    \/ ClaimExpired
    \/ Deposit
    \/ Withdraw
    \/ ClockRuns

\* the clock keeps advancing, and claimexpired for a game is invoked if it
\* stays possible
LiveSpec ==
    /\ Init
    /\ [][LiveNext]_vars
    /\ WF_vars(ClockRuns)
    /\ \A g \in 1..MaxGames : WF_vars(ClaimExpiredOf(g))

(***************************************************************************)
(* Readings of the tables used by the properties.                          *)
(***************************************************************************)
\* an account that is not stored holds nothing
Balance(a, o) == IF o \in DOMAIN a THEN a[o].eos_balance ELSE 0

OpenGames(a, o) == IF o \in DOMAIN a THEN a[o].open_games ELSE 0

\* the unmatched offers with the given stake
open_at(offs, stake) == {i \in DOMAIN offs : offs[i].gameid = 0 /\ offs[i].bet = stake}

\* the offers that belong to the game
offers_of(offs, g) == {i \in DOMAIN offs : offs[i].gameid = g}

slot_commitments(game) == {game.player1.commitment, game.player2.commitment}

\* the call was rolled back: an error and the tables as they were
Rejected(res) ==
    /\ res.err # "ok"
    /\ res.offers = offers
    /\ res.games = games
    /\ res.global_dices = global_dices
    /\ res.accounts = accounts

funded(o, stake) == o \in DOMAIN accounts /\ accounts[o].eos_balance >= stake

(***************************************************************************)
(* C1.  The first of two valid offers with the same stake (no open offer   *)
(* at that stake yet, owner funded, fresh commitment) is stored unmatched  *)
(* with its stake and debits its owner by the stake.  The second, from a   *)
(* different funded owner with another fresh commitment, while the first   *)
(* is the only open offer at that stake, creates exactly one game for the  *)
(* pair, sets both offers to stake 0 and the new game's non-zero id, and   *)
(* debits the second owner by the stake and the first owner not again.     *)
(***************************************************************************)
C1_FirstOfferQueued ==
    \A stake \in 1..MaxAmount, A \in Owners, cA \in Commitments :
        (/\ funded(A, stake)
         /\ cA \notin stored_commitments(offers)
         /\ open_at(offers, stake) = {})
        => LET res == offerbet(stake, A, cA, TRUE)
               n   == available_primary_key(offers)
           IN  /\ res.err = "ok"
               /\ res.games = games
               /\ DOMAIN res.offers = DOMAIN offers \cup {n}
               /\ res.offers[n] = [id |-> n, owner |-> A, bet |-> stake,
                                   commitment |-> cA, gameid |-> 0]
               /\ res.accounts[A].eos_balance = accounts[A].eos_balance - stake
               /\ \A o \in Owners \ {A} : Balance(res.accounts, o) = Balance(accounts, o)

C1_SecondOfferMatches ==
    \A stake \in 1..MaxAmount, A \in Owners, B \in Owners, cB \in Commitments :
        (/\ A # B
         /\ funded(B, stake)
         /\ cB \notin stored_commitments(offers)
         /\ Cardinality(open_at(offers, stake)) = 1
         /\ \A i \in open_at(offers, stake) : offers[i].owner = A)
        => LET res  == offerbet(stake, B, cB, TRUE)
               x    == CHOOSE i \in open_at(offers, stake) : TRUE
               n    == available_primary_key(offers)
               pair == {offers[x].commitment, cB}
               made == {g \in DOMAIN res.games : slot_commitments(res.games[g]) = pair}
           IN  /\ res.err = "ok"
               /\ Cardinality(made) = 1
               /\ DOMAIN res.games = DOMAIN games \cup made
               /\ \A g \in made :
                    /\ g # 0
                    /\ g \notin DOMAIN games
                    /\ res.games[g].bet = stake
                    /\ offers_of(res.offers, g) = {x, n}
               /\ res.offers[x].bet = 0 /\ res.offers[x].owner = A
               /\ res.offers[n].bet = 0 /\ res.offers[n].owner = B
               /\ res.offers[n].commitment = cB
               /\ res.accounts[B].eos_balance = accounts[B].eos_balance - stake
               /\ res.accounts[A].eos_balance = accounts[A].eos_balance

\* C1: two valid offers of equal stake from distinct owners end in exactly one
\* game, both offers at stake 0 with its id, each owner debited the stake once
C1_EqualStakePairMatches == C1_FirstOfferQueued /\ C1_SecondOfferMatches

\* an offerbet has just paired two offers of distinct owners in a fresh game
C1_Witness ==
    /\ last.op = "offerbet"
    /\ \E g \in DOMAIN games :
        /\ games[g].deadline = 0
        /\ games[g].bet > 0
        /\ Cardinality(offers_of(offers, g)) = 2
        /\ \A i \in offers_of(offers, g) : offers[i].bet = 0
        /\ Cardinality({offers[i].owner : i \in offers_of(offers, g)}) = 2

(***************************************************************************)
(* C2.  No two stored offers, matched or not, carry the same commitment,   *)
(* and an offerbet with the commitment of a stored offer is rejected (for  *)
(* a positive bet, as a duplicate) and changes nothing.                    *)
(***************************************************************************)
C2_CommitmentsUnique ==
    /\ \A i \in DOMAIN offers, j \in DOMAIN offers :
          i # j => offers[i].commitment # offers[j].commitment
    /\ \A bet \in 0..MaxAmount, player \in Owners, has_auth \in BOOLEAN :
          \A c \in stored_commitments(offers) :
             LET res == offerbet(bet, player, c, has_auth)
             IN  /\ Rejected(res)
                 /\ bet > 0 => res.err = "offer with this commitment already exist"

\* a matched and an unmatched offer are stored, and an offerbet of a stored
\* account with the matched offer's commitment is refused as a duplicate
C2_Witness ==
    \E i \in DOMAIN offers, j \in DOMAIN offers, p \in DOMAIN accounts :
        /\ offers[i].gameid # 0
        /\ offers[j].gameid = 0
        /\ offerbet(1, p, offers[i].commitment, TRUE).err
              = "offer with this commitment already exist"

(***************************************************************************)
(* C3.  In every state, a reveal whose source does not hash to the         *)
(* commitment fails and leaves offers, games, accounts and the global      *)
(* counter as they were.                                                   *)
(***************************************************************************)
C3_BadRevealRejected ==
    \A c \in Commitments, s \in Secrets :
        sha256(s) # c =>
            LET res == reveal(c, s)
            IN  Rejected(res) /\ res.err = "hash mismatch"

\* a matched game awaits the reveal of a stored commitment, and a reveal of it
\* with another secret is refused
C3_Witness ==
    \E i \in DOMAIN offers, s \in Secrets :
        /\ offers[i].gameid \in DOMAIN games
        /\ sha256(s) # offers[i].commitment
        /\ reveal(offers[i].commitment, s).err = "hash mismatch"
        /\ \E s2 \in Secrets : reveal(offers[i].commitment, s2).err = "ok"

(***************************************************************************)
(* C4.  In a matched game, a reveal with a valid secret by a player who    *)
(* has not revealed yet, made while the other player has not revealed      *)
(* either, leaves the game stored with the secret in that player's slot    *)
(* and deadline = now + 300; made after the other player's reveal, it pays *)
(* out and erases the game and both offers.  A valid reveal for a          *)
(* commitment that no offer carries (as after the resolution) fails with   *)
(* "offer not found" and changes nothing.                                  *)
(***************************************************************************)
other_commitment(game, c) ==
    IF game.player1.commitment = c THEN game.player2.commitment
    ELSE game.player1.commitment

\* C4: the first valid reveal of a game is stored with deadline now + 300, the
\* second pays out and erases the game and both offers; a reveal for a
\* commitment no offer carries fails with "offer not found"
C4_SecondRevealSettles ==
    /\ \A i \in DOMAIN offers, s \in Secrets :
          LET c == offers[i].commitment
              g == offers[i].gameid
          IN  (g \in DOMAIN games /\ sha256(s) = c /\ c \notin revealed) =>
                 LET res == reveal(c, s)
                 IN  IF other_commitment(games[g], c) \notin revealed
                     THEN /\ res.err = "ok"
                          /\ res.paid = << >>
                          /\ g \in DOMAIN res.games
                          /\ res.games[g][curr_slot(g, c)].reveal = s
                          /\ res.games[g].deadline = now + FIVE_MINUTES
                     ELSE /\ res.err = "ok"
                          /\ res.paid # << >>
                          /\ g \notin DOMAIN res.games
                          /\ offers_of(res.offers, g) = {}
    /\ \A s \in Secrets :
          sha256(s) \notin stored_commitments(offers) =>
              LET res == reveal(sha256(s), s)
              IN  Rejected(res) /\ res.err = "offer not found"

(***************************************************************************)
(* C5.  A game is settled at most once: for every game id pay_and_clean    *)
(* has run for, it has run once, the game and both its offers are gone,    *)
(* and claimexpired for that id fails with "game not found" and changes    *)
(* nothing.                                                                *)
(***************************************************************************)
C5_SettledAtMostOnce ==
    \A g \in DOMAIN settled :
        /\ settled[g] = 1
        /\ g \notin DOMAIN games
        /\ offers_of(offers, g) = {}
        /\ Rejected(claimexpired(g))
        /\ claimexpired(g).err = "game not found"

\* game 1 has been settled and a later game is stored and expired: claimexpired
\* is refused for the settled id and would succeed for the stored one
C5_Witness ==
    \E g \in DOMAIN settled, h \in DOMAIN games :
        /\ claimexpired(g).err = "game not found"
        /\ claimexpired(h).err = "ok"

(***************************************************************************)
(* C6.  Value is conserved: the balances of all accounts, plus the bets of *)
(* all unmatched offers, plus twice the bet of every stored game, equal    *)
(* what was deposited and not withdrawn.                                   *)
(***************************************************************************)
RECURSIVE SumFn(_)
SumFn(f) ==
    IF DOMAIN f = {} THEN 0
    ELSE LET k == CHOOSE x \in DOMAIN f : TRUE
         IN  f[k] + SumFn(erase(f, k))

total_balances == SumFn([o \in DOMAIN accounts |-> accounts[o].eos_balance])

total_open_bets ==
    SumFn([i \in {j \in DOMAIN offers : offers[j].gameid = 0} |-> offers[i].bet])

total_game_bets == SumFn([g \in DOMAIN games |-> games[g].bet])

\* C6: balances + unmatched bets + 2 x game bets = custody
C6_ValueConserved == total_balances + total_open_bets + 2 * total_game_bets = custody

\* a settlement has just paid out while an unmatched offer and a funded
\* account are stored
C6_Witness ==
    /\ last.paid # << >>
    /\ total_open_bets > 0
    /\ total_balances > 0

(***************************************************************************)
(* C7.  A step that settles a game (by the second reveal or by             *)
(* claimexpired) raises the winner's balance by twice the game's bet,      *)
(* leaves the loser's balance as it was, lowers the open_games of both by  *)
(* one, and changes no other account.  The winner and the loser are the    *)
(* owners of the game's two offers.                                        *)
(***************************************************************************)
C7_SettlementStep ==
    (last'.paid # << >>) =>
        LET g == last'.paid[1]
            w == last'.paid[2]
            l == last'.paid[3]
        IN  /\ last'.op \in {"reveal", "claimexpired"}
            /\ g \in DOMAIN games
            /\ w # l
            /\ {offers[i].owner : i \in offers_of(offers, g)} = {w, l}
            /\ Balance(accounts', w) = Balance(accounts, w) + 2 * games[g].bet
            /\ Balance(accounts', l) = Balance(accounts, l)
            /\ OpenGames(accounts', w) = OpenGames(accounts, w) - 1
            /\ OpenGames(accounts', l) = OpenGames(accounts, l) - 1
            /\ \A o \in Owners \ {w, l} :
                  /\ (o \in DOMAIN accounts') = (o \in DOMAIN accounts)
                  /\ o \in DOMAIN accounts => accounts'[o] = accounts[o]

\* C7: every settlement step pays the winner 2 x bet, leaves the loser's
\* balance, lowers both open_games by one and changes no other account
C7_SettlementPaysWinnerOnly == [][C7_SettlementStep]_vars

\* a settlement has just run while a third account is stored
C7_Witness ==
    /\ last.paid # << >>
    /\ \E o \in DOMAIN accounts : o # last.paid[2] /\ o # last.paid[3]

(***************************************************************************)
(* C8.  claimexpired succeeds only for a stored game with a non-zero       *)
(* deadline, now > deadline and exactly one non-zero reveal field; it      *)
(* fails with "game not expired" when the deadline is 0 or now <= deadline *)
(* and with "game error" when the game is expired and both or neither      *)
(* reveal field is non-zero.                                               *)
(***************************************************************************)
one_reveal(game) == is_zero(game.player1.reveal) # is_zero(game.player2.reveal)

\* C8: claimexpired succeeds only past a non-zero deadline with exactly one
\* non-zero reveal, and fails with the stated error otherwise
C8_ClaimExpiredGuards ==
    \A g \in 0..MaxGames :
        LET res == claimexpired(g)
        IN  /\ res.err = "ok" =>
                 /\ g \in DOMAIN games
                 /\ games[g].deadline # 0
                 /\ now > games[g].deadline
                 /\ one_reveal(games[g])
            /\ (g \in DOMAIN games /\ (games[g].deadline = 0 \/ now <= games[g].deadline))
                  => res.err = "game not expired"
            /\ (g \in DOMAIN games /\ games[g].deadline # 0 /\ now > games[g].deadline
                  /\ ~one_reveal(games[g]))
                  => res.err = "game error"

(***************************************************************************)
(* C9.  Whenever claimexpired succeeds, the winner it pays is the player   *)
(* who revealed in that game and the loser is the player who never did.    *)
(***************************************************************************)
owner_revealed(g, o) ==
    \E i \in offers_of(offers, g) : offers[i].owner = o /\ offers[i].commitment \in revealed

\* C9: a successful claimexpired pays the player who revealed; the loser is
\* the player who never revealed
C9_ClaimExpiredPaysRevealer ==
    \A g \in 0..MaxGames :
        LET res == claimexpired(g)
        IN  res.err = "ok" =>
               /\ owner_revealed(g, res.paid[2])
               /\ ~owner_revealed(g, res.paid[3])

(***************************************************************************)
(* C10.  canceloffer for the commitment of a matched offer (game_id # 0)   *)
(* fails with "unable to cancel offer", with or without the owner's        *)
(* authority, and changes nothing.                                         *)
(***************************************************************************)
C10_MatchedOfferNotCancellable ==
    \A i \in DOMAIN offers, has_auth \in BOOLEAN :
        offers[i].gameid # 0 =>
            LET res == canceloffer(offers[i].commitment, has_auth)
            IN  Rejected(res) /\ res.err = "unable to cancel offer"

\* an offer is locked in a game, its cancellation is refused, and an unmatched
\* offer stored beside it can be cancelled
C10_Witness ==
    \E i \in DOMAIN offers, j \in DOMAIN offers :
        /\ offers[i].gameid \in DOMAIN games
        /\ canceloffer(offers[i].commitment, TRUE).err = "unable to cancel offer"
        /\ canceloffer(offers[j].commitment, TRUE).err = "ok"

(***************************************************************************)
(* C11.  When a valid reveal finds the other player's reveal present, the  *)
(* winner is decided by slot: with the digest taken over both slots        *)
(* holding both secrets, player1 wins if byte[1] < byte[0] and player2     *)
(* wins otherwise.  The digest so taken depends on the commitments and     *)
(* the secrets only, so the winner is the same whichever player revealed   *)
(* first.                                                                  *)
(***************************************************************************)
slot_owner(g, slot) == offers[find_commitment(offers, games[g][slot].commitment)].owner

\* the reveal of commitment c is the second reveal of its game
second_reveal(i, s) ==
    LET c == offers[i].commitment
        g == offers[i].gameid
    IN  /\ g \in DOMAIN games
        /\ sha256(s) = c
        /\ is_zero(games[g][curr_slot(g, c)].reveal)
        /\ ~is_zero(games[g][other_slot(curr_slot(g, c))].reveal)

\* the game row with the secret s written into the slot of commitment c
both_revealed(g, c, s) == [games[g] EXCEPT ![curr_slot(g, c)].reveal = s]

\* C11: the second reveal pays player1 if byte[1] < byte[0] of the digest over
\* both secrets and player2 otherwise, whichever of the two reveals second
C11_WinnerBySlot ==
    \A i \in DOMAIN offers, s \in Secrets :
        second_reveal(i, s) =>
            LET c    == offers[i].commitment
                g    == offers[i].gameid
                res  == reveal(c, s)
                both == both_revealed(g, c, s)
                d    == result_hash(both.player1, both.player2)
            IN  /\ res.err = "ok"
                /\ res.paid # << >>
                /\ res.paid[2] = IF d[2] < d[1] THEN slot_owner(g, "player1")
                                                ELSE slot_owner(g, "player2")

(***************************************************************************)
(* C12.  No stored account has a negative balance.  withdraw of more than  *)
(* the balance fails on the token subtraction, and so does offerbet with a *)
(* stake above the balance; both leave every table unchanged.              *)
(***************************************************************************)
underflow == "integer underflow subtracting token balance"

C12_BalanceNeverNegative ==
    /\ \A o \in DOMAIN accounts : accounts[o].eos_balance >= 0
    /\ \A to \in DOMAIN accounts, amount \in 1..(MaxCustody + 1) :
          amount > accounts[to].eos_balance =>
              LET res == withdraw(to, amount, TRUE)
              IN  Rejected(res) /\ res.err = underflow
    /\ \A player \in DOMAIN accounts, bet \in 1..(MaxCustody + 1), c \in Commitments :
          (bet > accounts[player].eos_balance /\ ~has_offer(offers, c)) =>
              LET res == offerbet(bet, player, c, TRUE)
              IN  Rejected(res) /\ res.err = underflow

\* an account holding 1 is refused a withdrawal of 2 and a stake of 2, with
\* an offer stored that the same stake would otherwise match, and is allowed
\* a withdrawal of 1
C12_Witness ==
    \E to \in DOMAIN accounts, i \in DOMAIN offers, c \in Commitments :
        /\ accounts[to].eos_balance = 1
        /\ offers[i].owner # to /\ offers[i].gameid = 0 /\ offers[i].bet = 2
        /\ ~has_offer(offers, c)
        /\ withdraw(to, 2, TRUE).err = underflow
        /\ offerbet(2, to, c, TRUE).err = underflow
        /\ withdraw(to, 1, TRUE).err = "ok"

(***************************************************************************)
(* C13.  The digest that decides a game at its second reveal is taken over *)
(* both player slots with both reveal fields holding the secrets the two   *)
(* players revealed: it is the digest of the game row with the second      *)
(* revealer's secret written into that player's slot.                      *)
(***************************************************************************)
C13_DigestOverBothSecrets ==
    \A i \in DOMAIN offers, s \in Secrets :
        second_reveal(i, s) =>
            LET c    == offers[i].commitment
                g    == offers[i].gameid
                res  == reveal(c, s)
                both == both_revealed(g, c, s)
            IN  /\ res.err = "ok"
                /\ res.paid # << >>
                /\ stored_result(g) = result_hash(both.player1, both.player2)

(***************************************************************************)
(* C14.  Every stored game is either awaiting reveals (both reveal fields  *)
(* zero and deadline = 0) or has one reveal (exactly one reveal field      *)
(* non-zero and deadline # 0): no stored game has both reveal fields       *)
(* non-zero, nor a non-zero deadline with no reveal present, whatever      *)
(* secrets pass the hash check.                                            *)
(***************************************************************************)
AwaitingReveals(game) ==
    /\ is_zero(game.player1.reveal) /\ is_zero(game.player2.reveal)
    /\ game.deadline = 0

OneRevealed(game) == one_reveal(game) /\ game.deadline # 0

C14_GameStates ==
    \A g \in DOMAIN games : AwaitingReveals(games[g]) \/ OneRevealed(games[g])

(***************************************************************************)
(* C15.  A new offer is matched with the unmatched offer of smallest id    *)
(* among those with the same stake owned by a different account, and is    *)
(* left unmatched only if there is none.  No offer is ever matched with an *)
(* offer of a different stake or of the same owner.                        *)
(***************************************************************************)
\* the unmatched offers the new offer of player at this stake may be paired with
candidates(bet, player) == {i \in open_at(offers, bet) : offers[i].owner # player}

C15_MatchesSmallestCandidate ==
    \A bet \in 1..MaxAmount, player \in DOMAIN accounts, c \in Commitments :
        LET res  == offerbet(bet, player, c, TRUE)
            n    == available_primary_key(offers)
            cand == candidates(bet, player)
        IN  res.err = "ok" =>
              /\ IF cand = {}
                  THEN /\ res.offers[n].gameid = 0
                       /\ res.games = games
                       /\ \A i \in DOMAIN offers : res.offers[i] = offers[i]
                  ELSE LET m == SetMin(cand)
                       IN  /\ res.offers[n].gameid \notin DOMAIN games \cup {0}
                           /\ offers_of(res.offers, res.offers[n].gameid) = {n, m}
                           /\ \A i \in DOMAIN offers \ {m} : res.offers[i] = offers[i]
              /\ \A i \in DOMAIN offers :
                    res.offers[i].gameid # offers[i].gameid =>
                        /\ offers[i].bet = bet
                        /\ offers[i].owner # player

\* two unmatched offers of one owner wait at a stake: the offer of another
\* funded account is matched with the older one, the owner's own third offer
\* is left unmatched
C15_Witness ==
    \E i \in DOMAIN offers, j \in DOMAIN offers, player \in DOMAIN accounts,
       c \in Commitments :
        LET bet  == offers[i].bet
            res  == offerbet(bet, player, c, TRUE)
            own  == offerbet(bet, offers[i].owner, c, TRUE)
            n    == available_primary_key(offers)
        IN  /\ i < j
            /\ {i, j} \subseteq candidates(bet, player)
            /\ res.err = "ok"
            /\ res.offers[i].gameid = res.offers[n].gameid
            /\ res.offers[j].gameid = 0
            /\ own.err = "ok"
            /\ own.offers[n].gameid = 0

(***************************************************************************)
(* C16.  What the offerbet call that produces a match does to the two      *)
(* owners, the game table and the two offers.                              *)
(***************************************************************************)
\* the call offerbet(bet, player, c) of a funded player produces a match
matching_call(bet, player, c) ==
    /\ ~has_offer(offers, c)
    /\ candidates(bet, player) # {}
    /\ offerbet(bet, player, c, TRUE).err = "ok"

\* everything the claim says of the matching call except the balances
match_effects(bet, player, c) ==
    LET res == offerbet(bet, player, c, TRUE)
        n   == available_primary_key(offers)
        m   == SetMin(candidates(bet, player))
        gid == res.offers[n].gameid
        mo  == offers[m].owner
    IN  /\ res.accounts[player].open_games = accounts[player].open_games + 1
        /\ res.accounts[mo].open_games = accounts[mo].open_games + 1
        /\ res.accounts[mo].open_offers = accounts[mo].open_offers - 1
        /\ res.accounts[player].open_offers = accounts[player].open_offers
        /\ DOMAIN res.games = DOMAIN games \cup {gid} /\ gid \notin DOMAIN games
        /\ res.games[gid].bet = bet
        /\ res.offers[m] = [offers[m] EXCEPT !.bet = 0, !.gameid = gid]
        /\ res.offers[n] = [id |-> n, owner |-> player, bet |-> 0,
                            commitment |-> c, gameid |-> gid]

\* C16 as stated: the matching call debits both owners' balances by the stake
C16_MatchDebitsBothOwners ==
    \A bet \in 1..MaxAmount, player \in DOMAIN accounts, c \in Commitments :
        matching_call(bet, player, c) =>
            LET res == offerbet(bet, player, c, TRUE)
                mo  == offers[SetMin(candidates(bet, player))].owner
            IN  /\ res.accounts[player].eos_balance = accounts[player].eos_balance - bet
                /\ res.accounts[mo].eos_balance = accounts[mo].eos_balance - bet
                /\ match_effects(bet, player, c)

\* C16 amended: the matching call debits only the new offer's owner by the
\* stake and leaves the matched owner's balance, debited when that offer was
\* placed, as it is; both open_games go up by one, the matched owner's
\* open_offers down by one, a new game is created and both offers are
\* rewritten to stake 0 and the new game's id
C16_MatchDebitsNewOwnerOnly ==
    \A bet \in 1..MaxAmount, player \in DOMAIN accounts, c \in Commitments :
        matching_call(bet, player, c) =>
            LET res == offerbet(bet, player, c, TRUE)
                mo  == offers[SetMin(candidates(bet, player))].owner
            IN  /\ res.accounts[player].eos_balance = accounts[player].eos_balance - bet
                /\ res.accounts[mo].eos_balance = accounts[mo].eos_balance
                /\ match_effects(bet, player, c)

\* a matching call is possible while the matched owner still holds a balance
\* that a second debit of the stake could be taken from
C16_Witness ==
    \E bet \in 1..MaxAmount, player \in DOMAIN accounts, c \in Commitments :
        /\ matching_call(bet, player, c)
        /\ accounts[offers[SetMin(candidates(bet, player))].owner].eos_balance >= bet

(***************************************************************************)
(* C17.  Once the deadline of a game has passed with one reveal present,   *)
(* no call settles the game in favour of the player who had not revealed:  *)
(* whatever reveal or claimexpired call pays the game out pays the owner   *)
(* of the slot whose reveal was present at the deadline.                   *)
(***************************************************************************)
\* the slot of the game whose reveal field is non-zero
revealed_slot(game) == IF ~is_zero(game.player1.reveal) THEN "player1" ELSE "player2"

\* the call settled game g for someone other than owner o
settles_against(res, g, o) ==
    res.err = "ok" /\ res.paid # << >> /\ res.paid[1] = g /\ res.paid[2] # o

C17_ExpiredGamePaysRevealer ==
    \A g \in DOMAIN games :
        (expired(g) /\ one_reveal(games[g])) =>
            LET o == slot_owner(g, revealed_slot(games[g]))
            IN  /\ \A s \in Secrets : ~settles_against(reveal(sha256(s), s), g, o)
                /\ \A k \in 0..MaxGames : ~settles_against(claimexpired(k), g, o)

(***************************************************************************)
(* C18.  Every game in which a player has revealed is eventually settled,  *)
(* given that the clock keeps advancing and that claimexpired for the game *)
(* is invoked if it stays possible; and once now > deadline claimexpired   *)
(* for the game succeeds.                                                  *)
(***************************************************************************)
\* a player of the stored game g has had a reveal call commit
has_reveal(g) == g \in DOMAIN games /\ slot_commitments(games[g]) \cap revealed # {}

C18_RevealedGameSettles ==
    /\ [](\A g \in DOMAIN games : expired(g) => claimexpired(g).err = "ok")
    /\ \A g \in 1..MaxGames : has_reveal(g) ~> (g \notin DOMAIN games)

(***************************************************************************)
(* C19.  Each account's open_offers is the number of stored offers it owns *)
(* with gameid = 0 and its open_games the number it owns with gameid # 0;  *)
(* an owner without an account row owns no stored offer; neither counter   *)
(* ever wraps below zero.                                                  *)
(***************************************************************************)
unmatched_of(o) == {i \in DOMAIN offers : offers[i].owner = o /\ offers[i].gameid = 0}

matched_of(o) == {i \in DOMAIN offers : offers[i].owner = o /\ offers[i].gameid # 0}

OpenOffers(a, o) == IF o \in DOMAIN a THEN a[o].open_offers ELSE 0

C19_CountersMatchOffers ==
    \A o \in Owners :
        /\ OpenOffers(accounts, o) = Cardinality(unmatched_of(o))
        /\ OpenGames(accounts, o) = Cardinality(matched_of(o))
        /\ OpenOffers(accounts, o) >= 0
        /\ OpenGames(accounts, o) >= 0

\* after a game has been settled, an account holds an unmatched offer and an
\* offer in a game at once, and another account is in a game with none waiting
C19_Witness ==
    \E o \in DOMAIN accounts, q \in DOMAIN accounts :
        /\ settled # << >>
        /\ accounts[o].open_offers = 1 /\ accounts[o].open_games = 1
        /\ accounts[q].open_offers = 0 /\ accounts[q].open_games = 1

(***************************************************************************)
(* C20.  Referential integrity: every offer with gameid # 0 refers to a    *)
(* stored game; every stored game has exactly two stored offers carrying   *)
(* its id, whose commitments are the game's player1 and player2            *)
(* commitments and whose owners are distinct; the owner of every stored    *)
(* offer has a stored account.  Hence no call of reveal, claimexpired,     *)
(* canceloffer or offerbet dereferences a missing game, offer or account.  *)
(***************************************************************************)
end_dereferenced == "dereferenced end iterator"

C20_ReferentialIntegrity ==
    /\ \A i \in DOMAIN offers :
          /\ offers[i].gameid # 0 => offers[i].gameid \in DOMAIN games
          /\ offers[i].owner \in DOMAIN accounts
    /\ \A g \in DOMAIN games :
          /\ Cardinality(offers_of(offers, g)) = 2
          /\ {offers[i].commitment : i \in offers_of(offers, g)} = slot_commitments(games[g])
          /\ Cardinality({offers[i].owner : i \in offers_of(offers, g)}) = 2
    /\ \A c \in Commitments, s \in Secrets : reveal(c, s).err # end_dereferenced
    /\ \A g \in 0..MaxGames : claimexpired(g).err # end_dereferenced
    /\ \A c \in Commitments, has_auth \in BOOLEAN :
          canceloffer(c, has_auth).err # end_dereferenced

\* a withdrawal has just emptied the balance of an account that is kept
\* because it has an offer in a stored game, beside an unmatched offer
C20_Witness ==
    \E i \in DOMAIN offers, j \in DOMAIN offers :
        /\ last.op = "withdraw"
        /\ offers[i].gameid \in DOMAIN games
        /\ accounts[offers[i].owner].eos_balance = 0
        /\ offers[j].gameid = 0

====
